---- MODULE Spec2Model ----
(***************************************************************************)
(* Half-edge mesh of src/halfedgemesh.js: construction of the half-edge    *)
(* graph from an oriented polygon soup (HedgeMesh.loadFileFromLines), the  *)
(* topology queries of HFace and HVertex, and the geometric operators      *)
(* inflateDeflate and laplacianSmoothSharpen.                              *)
(*                                                                         *)
(* Object references are indices into the mesh's collections; 0 is null.   *)
(* Vertex ids are the source's ids plus one (sequences start at 1).        *)
(***************************************************************************)
EXTENDS Integers, Sequences, FiniteSets, TLC

VARIABLES vertices,            \* this.vertices
          edges,               \* this.edges
          faces,               \* this.faces
          needsDisplayUpdate,  \* this.needsDisplayUpdate
          res,                 \* the description Step 1 of loadFileFromLines obtains
          lastCall,            \* the last method called, its argument and how it ended
          nCalls               \* geometric calls made so far

vars == <<vertices, edges, faces, needsDisplayUpdate, res, lastCall, nCalls>>

null == 0

(***************************************************************************)
(* Bounds of the generated inputs.                                         *)
(***************************************************************************)
NumVerts == 5
MaxFaces == 2

(***************************************************************************)
(* Objects.                                                                *)
(***************************************************************************)
\* function HEdge(): every field starts null
HEdge == [head |-> null, face |-> null, pair |-> null, prev |-> null, next |-> null]

\* function HFace()
HFace == [h |-> null]

\* function HVertex(pos, color)
HVertex(pos, color) == [pos |-> pos, color |-> color, h |-> null, ID |-> null]

\* A mesh value: the three collections of a HedgeMesh.
Mesh(vs, es, fs) == [vertices |-> vs, edges |-> es, faces |-> fs]

EmptyMesh == Mesh(<<>>, <<>>, <<>>)

\* addHalfEdge without "hedge.face = face"
addHalfEdgeNoFace(m, v1, v2, face) ==
    LET hedge == [HEdge EXCEPT !.head = v2]
        es    == Append(m.edges, hedge)
    IN  [m EXCEPT !.edges = es,
                  !.vertices = [m.vertices EXCEPT ![v1].h = Len(es)]]

(***************************************************************************)
(* addHalfEdge(v1, v2, face): the new half-edge is the last of m.edges.    *)
(***************************************************************************)
addHalfEdge(m, v1, v2, face) ==
    LET hedge == [HEdge EXCEPT !.head = v2, !.face = face]
        es    == Append(m.edges, hedge)
    IN  [m EXCEPT !.edges = es,
                  !.vertices = [m.vertices EXCEPT ![v1].h = Len(es)]]

(***************************************************************************)
(* loadFileFromLines, Step 2: one HVertex per input position.              *)
(***************************************************************************)
AddVertices(r) ==
    [i \in 1..Len(r.vertices) |->
        [HVertex(r.vertices[i], r.colors[i]) EXCEPT !.ID = i]]

(***************************************************************************)
(* str2Hedge is a JS object: keys iterate in first-insertion order, an     *)
(* assignment to an existing key overwrites the value in place.            *)
(***************************************************************************)
EmptyTable == [keys |-> <<>>, val |-> <<>>]

HasKey(t, key) == \E i \in 1..Len(t.keys) : t.keys[i] = key

KeyIndex(t, key) == CHOOSE i \in 1..Len(t.keys) : t.keys[i] = key

Lookup(t, key) == t.val[KeyIndex(t, key)]

Store(t, key, v) ==
    IF HasKey(t, key)
    THEN [t EXCEPT !.val[KeyIndex(t, key)] = v]
    ELSE [keys |-> Append(t.keys, key), val |-> Append(t.val, v)]

(***************************************************************************)
(* Step 3, inner loop "Add halfedges" of one face: k runs over vertsi.     *)
(* st = [m, str2Hedge]; fi is the index of the face being built.           *)
(***************************************************************************)
RECURSIVE AddFaceEdges(_, _, _, _)
AddFaceEdges(st, vertsi, fi, k) ==
    IF k > Len(vertsi) THEN st
    ELSE LET v1    == vertsi[k]
             v2    == vertsi[(k % Len(vertsi)) + 1]
             m1    == addHalfEdge(st.m, v1, v2, fi)
             hedge == Len(m1.edges)
             m2    == [m1 EXCEPT !.faces[fi].h = hedge]
         IN  AddFaceEdges([m |-> m2,
                           str2Hedge |-> Store(st.str2Hedge, <<v1, v2>>, hedge)],
                          vertsi, fi, k + 1)

(***************************************************************************)
(* Step 3, loop "Link edges together around face": uses each vertex's h.   *)
(***************************************************************************)
RECURSIVE LinkFaceEdges(_, _, _)
LinkFaceEdges(m, vertsi, k) ==
    IF k > Len(vertsi) THEN m
    ELSE LET a  == m.vertices[vertsi[k]].h
             b  == m.vertices[vertsi[(k % Len(vertsi)) + 1]].h
             e1 == [m.edges EXCEPT ![a].next = b]
             e2 == [e1 EXCEPT ![b].prev = a]
         IN  LinkFaceEdges([m EXCEPT !.edges = e2], vertsi, k + 1)

(***************************************************************************)
(* Step 3: faces of res in order.                                          *)
(***************************************************************************)
RECURSIVE AddFaces(_, _, _)
AddFaces(st, fcs, i) ==
    IF i > Len(fcs) THEN st
    ELSE LET m0  == [st.m EXCEPT !.faces = Append(st.m.faces, HFace)]
             fi  == Len(m0.faces)
             st1 == AddFaceEdges([st EXCEPT !.m = m0], fcs[i], fi, 1)
             m2  == LinkFaceEdges(st1.m, fcs[i], 1)
         IN  AddFaces([st1 EXCEPT !.m = m2], fcs, i + 1)

\* Step 4 without "h2.pair = h1"
RECURSIVE PairEdgesNoBackLink(_, _, _)
PairEdgesNoBackLink(st, str2Hedge, i) ==
    IF i > Len(str2Hedge.keys) THEN st
    ELSE LET key   == str2Hedge.keys[i]
             h1    == str2Hedge.val[i]
             other == <<key[2], key[1]>>
         IN  IF HasKey(str2Hedge, other)
             THEN PairEdgesNoBackLink(
                    [st EXCEPT !.m.edges[h1].pair = Lookup(str2Hedge, other)],
                    str2Hedge, i + 1)
             ELSE LET h2  == [HEdge EXCEPT !.head = key[1]]
                      es  == Append([st.m.edges EXCEPT ![h1].pair = Len(st.m.edges) + 1], h2)
                      be  == [t \in (DOMAIN st.boundaryEdges) \cup {key[2]} |->
                                 IF t = key[2] THEN Len(es) ELSE st.boundaryEdges[t]]
                  IN  PairEdgesNoBackLink(
                        [m |-> [st.m EXCEPT !.edges = es], boundaryEdges |-> be],
                        str2Hedge, i + 1)

(***************************************************************************)
(* Step 4: pair opposite half-edges, or synthesize a boundary half-edge.   *)
(* boundaryEdges is a function from tail vertex id to half-edge; st =      *)
(* [m, boundaryEdges].                                                     *)
(***************************************************************************)
RECURSIVE PairEdges(_, _, _)
PairEdges(st, str2Hedge, i) ==
    IF i > Len(str2Hedge.keys) THEN st
    ELSE LET key   == str2Hedge.keys[i]
             h1    == str2Hedge.val[i]
             other == <<key[2], key[1]>>
         IN  IF HasKey(str2Hedge, other)
             THEN PairEdges(
                    [st EXCEPT !.m.edges[h1].pair = Lookup(str2Hedge, other)],
                    str2Hedge, i + 1)
             ELSE LET h2  == [HEdge EXCEPT !.pair = h1, !.head = key[1]]
                      es  == Append([st.m.edges EXCEPT ![h1].pair = Len(st.m.edges) + 1], h2)
                      be  == [t \in (DOMAIN st.boundaryEdges) \cup {key[2]} |->
                                 IF t = key[2] THEN Len(es) ELSE st.boundaryEdges[t]]
                  IN  PairEdges([m |-> [st.m EXCEPT !.edges = es], boundaryEdges |-> be],
                                str2Hedge, i + 1)

(***************************************************************************)
(* Step 5: link the boundary half-edges.  The keys of boundaryEdges are    *)
(* integer-like, so for-in visits them in ascending order.  A head with no *)
(* entry makes e2 undefined: e.next is set to it and e2.prev throws.       *)
(* Returns [m, thrown].                                                    *)
(***************************************************************************)
RECURSIVE LinkBoundary(_, _, _)
LinkBoundary(m, boundaryEdges, todo) ==
    IF todo = {} THEN [m |-> m, thrown |-> FALSE]
    ELSE LET key == CHOOSE t \in todo : \A u \in todo : t <= u
             e   == boundaryEdges[key]
         IN  IF m.edges[e].next # null
             THEN LinkBoundary(m, boundaryEdges, todo \ {key})
             ELSE IF m.edges[e].head \notin DOMAIN boundaryEdges
                  THEN [m |-> m, thrown |-> TRUE]
                  ELSE LET e2 == boundaryEdges[m.edges[e].head]
                           e1 == [m.edges EXCEPT ![e].next = e2]
                           es == [e1 EXCEPT ![e2].prev = e]
                       IN  LinkBoundary([m EXCEPT !.edges = es], boundaryEdges,
                                        todo \ {key})

(***************************************************************************)
(* loadFileFromLines, Steps 1.5 to 5, on the description r that Step 1     *)
(* received from BasicMesh.  Returns [m, thrown].                          *)
(***************************************************************************)
BuildMesh(r) ==
    LET m2 == Mesh(AddVertices(r), <<>>, <<>>)
        s3 == AddFaces([m |-> m2, str2Hedge |-> EmptyTable], r.faces, 1)
        s4 == PairEdges([m |-> s3.m, boundaryEdges |-> <<>>], s3.str2Hedge, 1)
    IN  LinkBoundary(s4.m, s4.boundaryEdges, DOMAIN s4.boundaryEdges)

(***************************************************************************)
(* The vertex ring walk shared by getVertexNeighbors, getAttachedFaces:    *)
(*   do { visit(current); current = current.prev.pair }                    *)
(*   while (current !== first_edge)                                        *)
(* Returns the half-edges visited and how the loop ended: "returned",      *)
(* "TypeError" (a null current or a null current.prev is dereferenced) or  *)
(* "hang" (the walk entered a cycle that does not contain first_edge).     *)
(***************************************************************************)
\* F applied to the value of v, which is computed once
Bind(v, F(_)) == CHOOSE r \in { F(x) : x \in {v} } : TRUE

InSeq(x, s) == \E i \in 1..Len(s) : s[i] = x

RECURSIVE RingWalk(_, _, _, _)
RingWalk(m, first_edge, current_edge, acc) ==
    IF current_edge = null THEN [out |-> acc, end |-> "TypeError"]
    ELSE IF InSeq(current_edge, acc) THEN [out |-> acc, end |-> "hang"]
    ELSE LET p == m.edges[current_edge].prev
             Step(visited) ==
                 IF p = null THEN [out |-> visited, end |-> "TypeError"]
                 ELSE IF m.edges[p].pair = first_edge
                      THEN [out |-> visited, end |-> "returned"]
                      ELSE RingWalk(m, first_edge, m.edges[p].pair, visited)
         IN  Bind(Append(acc, current_edge), Step)

\* getVertexNeighbors pushing current_edge.prev.head, the vertex itself
getVertexNeighborsTail(m, v) ==
    IF m.vertices[v].h = null THEN [out |-> <<>>, end |-> "returned"]
    ELSE Bind(RingWalk(m, m.vertices[v].h, m.vertices[v].h, <<>>),
              LAMBDA w : [out |-> [i \in 1..Len(w.out) |->
                                      m.edges[m.edges[w.out[i]].prev].head],
                          end |-> w.end])

\* HVertex.getVertexNeighbors
getVertexNeighbors(m, v) ==
    IF m.vertices[v].h = null THEN [out |-> <<>>, end |-> "returned"]
    ELSE Bind(RingWalk(m, m.vertices[v].h, m.vertices[v].h, <<>>),
              LAMBDA w : [out |-> [i \in 1..Len(w.out) |-> m.edges[w.out[i]].head],
                          end |-> w.end])

\* the faces.push of getAttachedFaces: only a non-null face is collected
RECURSIVE CollectFaces(_, _, _)
CollectFaces(m, es, i) ==
    IF i > Len(es) THEN <<>>
    ELSE IF m.edges[es[i]].face # null
         THEN <<m.edges[es[i]].face>> \o CollectFaces(m, es, i + 1)
         ELSE CollectFaces(m, es, i + 1)

\* HVertex.getAttachedFaces
getAttachedFaces(m, v) ==
    IF m.vertices[v].h = null THEN [out |-> <<>>, end |-> "returned"]
    ELSE Bind(RingWalk(m, m.vertices[v].h, m.vertices[v].h, <<>>),
              LAMBDA w : [out |-> CollectFaces(m, w.out, 1), end |-> w.end])

(***************************************************************************)
(* The face loop walk of HFace.getEdges and HFace.getVertices:             *)
(*   edges = [h]; current = h.next;                                        *)
(*   while (current != h) { edges.push(current); current = current.next }  *)
(* A null current is pushed and then dereferenced: "TypeError".            *)
(***************************************************************************)
RECURSIVE FaceWalk(_, _, _, _)
FaceWalk(m, h, current_edge, acc) ==
    IF current_edge = h THEN [out |-> acc, end |-> "returned"]
    ELSE IF current_edge = null THEN [out |-> acc, end |-> "TypeError"]
    ELSE IF InSeq(current_edge, acc) THEN [out |-> acc, end |-> "hang"]
    ELSE Bind(Append(acc, current_edge),
              LAMBDA visited : FaceWalk(m, h, m.edges[current_edge].next, visited))

\* HFace.getEdges
getEdges(m, f) ==
    IF m.faces[f].h = null THEN [out |-> <<>>, end |-> "returned"]
    ELSE FaceWalk(m, m.faces[f].h, m.edges[m.faces[f].h].next, <<m.faces[f].h>>)

\* HFace.getVertices
getVertices(m, f) ==
    Bind(getEdges(m, f),
         LAMBDA w : [out |-> [i \in 1..Len(w.out) |-> m.edges[w.out[i]].head],
                     end |-> w.end])

(***************************************************************************)
(* Numbers.  A double is a fixed-point integer, Scale units per 1.0, or    *)
(* NaN; NaN is absorbing in every arithmetic operation and unequal to      *)
(* every number, itself included (vec3.exactEquals).  Quotients round      *)
(* toward zero.                                                            *)
(***************************************************************************)
Scale == 16

NaN == -2147483647

IsNaN(x) == x = NaN

Abs(x) == IF x < 0 THEN -x ELSE x

Div(a, b) == IF a < 0 THEN -((-a) \div b) ELSE a \div b

\* largest r with r * r <= n, by bisection of lo..hi
RECURSIVE Bisect(_, _, _)
Bisect(n, lo, hi) ==
    IF lo >= hi THEN lo
    ELSE LET mid == (lo + hi + 1) \div 2
         IN  IF mid * mid <= n THEN Bisect(n, mid, hi) ELSE Bisect(n, lo, mid - 1)

\* Math.sqrt on a non-negative number
Sqrt(n) == Bisect(n, 0, IF n < 46340 THEN n ELSE 46340)

VecNaN(a) == IsNaN(a[1]) \/ IsNaN(a[2]) \/ IsNaN(a[3])

AllNaN == <<NaN, NaN, NaN>>

Zero3 == <<0, 0, 0>>

\* vec3.add, vec3.subtract
add(a, b) == IF VecNaN(a) \/ VecNaN(b) THEN AllNaN
             ELSE <<a[1] + b[1], a[2] + b[2], a[3] + b[3]>>

subtract(a, b) == IF VecNaN(a) \/ VecNaN(b) THEN AllNaN
                  ELSE <<a[1] - b[1], a[2] - b[2], a[3] - b[3]>>

\* vec3.cross and vec3.dot of two difference vectors: Scale^2 units
cross(a, b) == IF VecNaN(a) \/ VecNaN(b) THEN AllNaN
               ELSE <<a[2] * b[3] - a[3] * b[2],
                      a[3] * b[1] - a[1] * b[3],
                      a[1] * b[2] - a[2] * b[1]>>

dot(a, b) == a[1] * b[1] + a[2] * b[2] + a[3] * b[3]

\* vec3.divide by <<n, n, n>>, and vec3.scale by 1/n: 0/0 and 0 * Infinity are NaN
divide(a, n) == IF VecNaN(a) \/ IsNaN(n) \/ n = 0 THEN AllNaN
                ELSE <<Div(a[1], n), Div(a[2], n), Div(a[3], n)>>

MaxAbs(a) == LET m12 == IF Abs(a[1]) > Abs(a[2]) THEN Abs(a[1]) ELSE Abs(a[2])
             IN  IF m12 > Abs(a[3]) THEN m12 ELSE Abs(a[3])

\* the length of a finite vector; a long one is halved first so that the sum
\* of squares fits a 32-bit integer
RECURSIVE Norm(_)
Norm(a) == IF MaxAbs(a) <= 16384 THEN Sqrt(dot(a, a)) ELSE 2 * Norm(divide(a, 2))

\* vec3.length
length(a) == IF VecNaN(a) THEN NaN ELSE Norm(a)

\* vec3.scale by an integer multiple (the units of a times those of w)
scale(a, w) == IF VecNaN(a) \/ IsNaN(w) THEN AllNaN
               ELSE <<a[1] * w, a[2] * w, a[3] * w>>

\* vec3.scaleAndAdd(out, a, b, s) with s a fixed-point number: a + b * s
scaleAndAdd(a, b, s) ==
    IF VecNaN(a) \/ VecNaN(b) \/ IsNaN(s) THEN AllNaN
    ELSE <<a[1] + Div(b[1] * s, Scale), a[2] + Div(b[2] * s, Scale),
           a[3] + Div(b[3] * s, Scale)>>

\* vec3.exactEquals
exactEquals(a, b) == ~VecNaN(a) /\ ~VecNaN(b) /\ a = b

\* a vector of the same direction whose squared length fits a 32-bit integer
RECURSIVE Shrink(_)
Shrink(a) == IF VecNaN(a) \/ MaxAbs(a) <= 16384 THEN a ELSE Shrink(divide(a, 2))

\* and, for a short vector, long enough for its length to be precise
RECURSIVE Grow(_)
Grow(a) == IF a = Zero3 \/ MaxAbs(a) > 1024 THEN a ELSE Grow(scale(a, 2))

\* vec3.normalize: a unit vector is Scale units long; a zero or NaN length
\* leaves len as it is and multiplies the vector by it
normalize(a) ==
    IF VecNaN(a) THEN AllNaN
    ELSE LET b   == Grow(Shrink(a))
             len == Sqrt(dot(b, b))
         IN  IF len > 0 THEN divide(scale(b, Scale), len) ELSE Zero3

(***************************************************************************)
(* Results of a call that may not return: val is the value, end is         *)
(* "returned", "TypeError" or "hang".                                      *)
(***************************************************************************)
Ret(v) == [val |-> v, end |-> "returned"]

Fail(how) == [val |-> Zero3, end |-> how]

Pos(m, v) == m.vertices[v].pos

\* HFace.getArea, the fan loop from i: half the length of each cross product
RECURSIVE FanArea(_, _, _)
FanArea(m, vs, i) ==
    IF i > Len(vs) - 1 THEN 0
    ELSE LET edge1 == subtract(Pos(m, vs[i]), Pos(m, vs[1]))
             edge2 == subtract(Pos(m, vs[i + 1]), Pos(m, vs[1]))
             Sum(len, rest) == IF IsNaN(len) \/ IsNaN(rest) THEN NaN
                               ELSE Div(len, 2) + rest
         IN  Bind(length(cross(edge1, edge2)),
                  LAMBDA len : Bind(FanArea(m, vs, i + 1), LAMBDA rest : Sum(len, rest)))

\* HFace.getArea: vertices[0].pos throws on an empty vertex list
getArea(m, f) ==
    LET Area(vs) == IF vs.end # "returned" THEN Fail(vs.end)
                    ELSE IF Len(vs.out) = 0 THEN Fail("TypeError")
                    ELSE Ret(FanArea(m, vs.out, 2))
    IN  Bind(getVertices(m, f), Area)

\* HFace.getNormal: vertices[1].pos or vertices[2].pos throws on a short list
FaceNormal(m, f) ==
    LET Normal(vs) ==
            IF vs.end # "returned" THEN Fail(vs.end)
            ELSE IF Len(vs.out) < 3 THEN Fail("TypeError")
            ELSE Ret(cross(subtract(Pos(m, vs.out[2]), Pos(m, vs.out[1])),
                           subtract(Pos(m, vs.out[3]), Pos(m, vs.out[1]))))
    IN  Bind(getVertices(m, f), Normal)

\* HVertex.getNormal, the loop over the attached faces from i
RECURSIVE SumFaceNormals(_, _, _, _)
SumFaceNormals(m, fs, i, normal) ==
    IF i > Len(fs) THEN Ret(normal)
    ELSE LET Step(face_area, face_normal) ==
                 IF face_area.end # "returned" THEN Fail(face_area.end)
                 ELSE IF face_normal.end # "returned" THEN Fail(face_normal.end)
                 ELSE Bind(add(normal, scale(face_normal.val, face_area.val)),
                           LAMBDA sum : SumFaceNormals(m, fs, i + 1, sum))
         IN  Bind(getArea(m, fs[i]),
                  LAMBDA face_area :
                      Bind(FaceNormal(m, fs[i]),
                           LAMBDA face_normal : Step(face_area, face_normal)))

\* HVertex.getNormal
getNormal(m, v) ==
    LET Average(fcs, sum) ==
            IF sum.end # "returned" THEN sum
            ELSE Ret(normalize(divide(sum.val, Len(fcs.out))))
        Normal(fcs) ==
            IF fcs.end # "returned" THEN Fail(fcs.end)
            ELSE Bind(SumFaceNormals(m, fcs.out, 1, Zero3), LAMBDA sum : Average(fcs, sum))
    IN  Bind(getAttachedFaces(m, v), Normal)

\* HVertex.getEdgeBetweenVertex, the do-while from current_edge
RECURSIVE ScanRing(_, _, _, _, _)
ScanRing(m, vertex, first_edge, current_edge, seen) ==
    IF current_edge = null THEN Fail("TypeError")
    ELSE IF current_edge \in seen THEN Fail("hang")
    ELSE IF exactEquals(Pos(m, vertex), Pos(m, m.edges[current_edge].head))
         THEN Ret(current_edge)
    ELSE LET p == m.edges[current_edge].prev
         IN  IF p = null THEN Fail("TypeError")
             ELSE IF m.edges[p].pair = first_edge THEN Ret(null)
             ELSE Bind(seen \cup {current_edge},
                       LAMBDA seen2 :
                           ScanRing(m, vertex, first_edge, m.edges[p].pair, seen2))

\* HVertex.getEdgeBetweenVertex(vertex) on the vertex v
getEdgeBetweenVertex(m, v, vertex) ==
    IF vertex = null THEN Ret(null)
    ELSE ScanRing(m, vertex, m.vertices[v].h, m.vertices[v].h, {})

(***************************************************************************)
(* inflateDeflate(factor): the loop over this.vertices from i, writing     *)
(* each position in place.  Returns [m, end].                              *)
(***************************************************************************)
RECURSIVE InflateFrom(_, _, _)
InflateFrom(m, factor, i) ==
    IF i > Len(m.vertices) THEN [m |-> m, end |-> "returned"]
    ELSE LET Step(n) ==
                 IF n.end # "returned" THEN [m |-> m, end |-> n.end]
                 ELSE Bind([m EXCEPT !.vertices[i].pos =
                                         scaleAndAdd(Pos(m, i), n.val, factor)],
                           LAMBDA moved : InflateFrom(moved, factor, i + 1))
         IN  Bind(getNormal(m, i), Step)

(***************************************************************************)
(* laplacianSmoothSharpen: the cotangent of vec3.angle(edge1, edge2), with *)
(* the source's clamp  Math.tan(a) <= 0 ? 1 : 1/Math.tan(a).  The angle is *)
(* 0 when the vectors are parallel, above pi/2 when their dot product is   *)
(* negative, and pi/2 when it is zero (also for a zero vector); 1/tan is   *)
(* positive on (0, pi/2], so the quotient is at least one unit.            *)
(***************************************************************************)
Cot(edge1, edge2) ==
    IF VecNaN(edge1) \/ VecNaN(edge2) THEN NaN
    ELSE LET Quotient(d, c) ==
                 IF d < 0 THEN Scale
                 ELSE IF d = 0 THEN 1
                 ELSE IF c = 0 THEN Scale
                 ELSE IF Div(d * Scale, c) < 1 THEN 1 ELSE Div(d * Scale, c)
         IN  Bind(length(cross(edge1, edge2)),
                  LAMBDA c : Quotient(dot(edge1, edge2), c))

\* head of e.prev.pair, or null when a link on the way is null
OppositeHead(m, e) ==
    IF e = null THEN null
    ELSE IF m.edges[e].prev = null THEN null
    ELSE IF m.edges[m.edges[e].prev].pair = null THEN null
    ELSE m.edges[m.edges[m.edges[e].prev].pair].head

\* the body of the loop over neighbours: w_ij, or how it throws
Weight(m, v, neighbor) ==
    LET Average(cot_alpha, cot_beta) ==
            IF IsNaN(cot_alpha) \/ IsNaN(cot_beta) THEN Ret(NaN)
            ELSE Ret(Div(cot_alpha + cot_beta, 2))
        Angles(vert1, vert2) ==
            IF vert1 = null \/ vert2 = null THEN Fail("TypeError")
            ELSE Bind(Cot(subtract(Pos(m, v), Pos(m, vert1)),
                          subtract(Pos(m, neighbor), Pos(m, vert1))),
                      LAMBDA cot_alpha :
                          Bind(Cot(subtract(Pos(m, v), Pos(m, vert2)),
                                   subtract(Pos(m, neighbor), Pos(m, vert2))),
                               LAMBDA cot_beta : Average(cot_alpha, cot_beta)))
        Opposite(edge) ==
            IF edge.end # "returned" THEN Fail(edge.end)
            ELSE Angles(OppositeHead(m, edge.val),
                        IF edge.val = null THEN null
                        ELSE OppositeHead(m, m.edges[edge.val].pair))
    IN  Bind(getEdgeBetweenVertex(m, v, neighbor), Opposite)

\* the loop over neighbours from j; acc = [w, c]: SIGMA w_ij and SIGMA w_ij * P_j
RECURSIVE SumNeighbours(_, _, _, _, _)
SumNeighbours(m, v, neighbours, j, acc) ==
    IF j > Len(neighbours) THEN Ret(acc)
    ELSE LET Step(current_weight) ==
                 IF current_weight.end # "returned" THEN Fail(current_weight.end)
                 ELSE Bind([w |-> IF IsNaN(acc.w) \/ IsNaN(current_weight.val) THEN NaN
                                  ELSE acc.w + current_weight.val,
                            c |-> add(acc.c, scale(Pos(m, neighbours[j]),
                                                   current_weight.val))],
                           LAMBDA sums : SumNeighbours(m, v, neighbours, j + 1, sums))
         IN  Bind(Weight(m, v, neighbours[j]), Step)

\* the body of the loop over vertices: new_vertex_pos of the vertex v
NewVertexPos(m, v, smooth) ==
    LET Displace(sums) ==
            IF sums.end # "returned" THEN Fail(sums.end)
            ELSE LET sum_of_all_contributions == divide(sums.val.c, sums.val.w)
                     delta_P == subtract(sum_of_all_contributions, Pos(m, v))
                 IN  IF smooth THEN Ret(scaleAndAdd(Pos(m, v), delta_P, Scale))
                     ELSE Ret(scaleAndAdd(Pos(m, v), delta_P, -Scale))
        Around(neighbours) ==
            IF neighbours.end # "returned" THEN Fail(neighbours.end)
            ELSE Bind(SumNeighbours(m, v, neighbours.out, 1, [w |-> 0, c |-> Zero3]),
                      Displace)
    IN  Bind(getVertexNeighbors(m, v), Around)

\* pass 1 writing each new position as soon as it is computed
RECURSIVE ComputeNewPositionsInPlace(_, _, _, _)
ComputeNewPositionsInPlace(m, smooth, i, new_vertices_pos) ==
    IF i > Len(m.vertices) THEN [val |-> new_vertices_pos, end |-> "returned"]
    ELSE LET Step(new_vertex_pos) ==
                 IF new_vertex_pos.end # "returned"
                 THEN [val |-> new_vertices_pos, end |-> new_vertex_pos.end]
                 ELSE Bind([m EXCEPT !.vertices[i].pos = new_vertex_pos.val],
                           LAMBDA moved :
                               Bind(Append(new_vertices_pos, new_vertex_pos.val),
                                    LAMBDA pushed :
                                        ComputeNewPositionsInPlace(moved, smooth,
                                                                   i + 1, pushed)))
         IN  Bind(NewVertexPos(m, i, smooth), Step)

\* pass 1, the loop over vertices from i: new_vertices_pos, nothing written
RECURSIVE ComputeNewPositions(_, _, _, _)
ComputeNewPositions(m, smooth, i, new_vertices_pos) ==
    IF i > Len(m.vertices) THEN [val |-> new_vertices_pos, end |-> "returned"]
    ELSE LET Step(new_vertex_pos) ==
                 IF new_vertex_pos.end # "returned"
                 THEN [val |-> new_vertices_pos, end |-> new_vertex_pos.end]
                 ELSE Bind(Append(new_vertices_pos, new_vertex_pos.val),
                           LAMBDA pushed : ComputeNewPositions(m, smooth, i + 1, pushed))
         IN  Bind(NewVertexPos(m, i, smooth), Step)

\* pass 2 replacing every vertex by a fresh HVertex at the new position
CommitFreshVertices(m, new_vertices_pos) ==
    [m EXCEPT !.vertices = [ind \in 1..Len(m.vertices) |->
                               HVertex(new_vertices_pos[ind], m.vertices[ind].color)]]

\* pass 2: vec3.copy of every new position
CommitPositions(m, new_vertices_pos) ==
    [m EXCEPT !.vertices = [ind \in 1..Len(m.vertices) |->
                               [m.vertices[ind] EXCEPT !.pos = new_vertices_pos[ind]]]]

\* laplacianSmoothSharpen(smooth) on the mesh m.  Returns [m, end].
LaplacianOf(m, smooth) ==
    LET Commit(pass1) ==
            IF pass1.end # "returned" THEN [m |-> m, end |-> pass1.end]
            ELSE [m |-> CommitPositions(m, pass1.val), end |-> "returned"]
    IN  Bind(ComputeNewPositions(m, smooth, 1, <<>>), Commit)

(***************************************************************************)
(* Inputs of loadFileFromLines: the description res that Step 1 copies     *)
(* from the BasicMesh loader (positions, colors, faces as vertex ids).     *)
(***************************************************************************)
\* corner number i of the unit cube, so that distinct ids get distinct positions
DefaultPos(i) == <<Scale * (i % 2), Scale * ((i \div 2) % 2), Scale * ((i \div 4) % 2)>>

DefaultColor(i) == <<i, i, i>>

Soup(n, fcs) == [vertices |-> [i \in 1..n |-> DefaultPos(i)],
                 colors   |-> [i \in 1..n |-> DefaultColor(i)],
                 faces    |-> fcs]

\* triangles a, b, c on the vertices 1..n, in both orientations, starting at
\* their smallest corner
Triangles(n) ==
    { <<a, b, c>> : a \in 1..n, b \in 1..n, c \in 1..n } \cap
    { t \in [1..3 -> 1..n] : t[1] < t[2] /\ t[1] < t[3] /\ t[2] # t[3] }

\* sequences of at most k elements of S
RECURSIVE SeqsUpTo(_, _)
SeqsUpTo(S, k) ==
    IF k = 0 THEN { <<>> }
    ELSE LET shorter == SeqsUpTo(S, k - 1)
         IN  shorter \cup { Append(s, x) : s \in { t \in shorter : Len(t) = k - 1 }, x \in S }

GeneratedInputs ==
    { Soup(NumVerts, fcs) : fcs \in SeqsUpTo(Triangles(NumVerts), MaxFaces) }

\* Named meshes: closed, open, with a face that starts elsewhere than at its
\* smallest corner, and malformed ones.
Tetrahedron == Soup(4, << <<1, 2, 3>>, <<1, 4, 2>>, <<2, 4, 3>>, <<3, 4, 1>> >>)
Quad == Soup(4, << <<1, 2, 3, 4>> >>)
RotatedQuad == Soup(4, << <<3, 4, 1, 2>> >>)
Pentagon == Soup(5, << <<2, 1, 3, 5, 4>> >>)
TwoTriangles == Soup(4, << <<2, 3, 1>>, <<3, 4, 1>> >>)
Cone == Soup(4, << <<1, 2, 3>>, <<1, 3, 4>>, <<1, 4, 2>> >>)
Pyramid == Soup(5, << <<5, 1, 2>>, <<5, 2, 3>>, <<5, 3, 4>>, <<5, 4, 1>> >>)
LoneVertex == Soup(4, << <<1, 2, 3>> >>)
LoneAndCone == Soup(5, << <<1, 2, 3>>, <<1, 3, 4>>, <<1, 4, 2>> >>)
Bowtie == Soup(5, << <<1, 2, 3>>, <<1, 4, 5>> >>)
TwiceDirected == Soup(4, << <<1, 2, 3>>, <<1, 2, 4>> >>)
Digon == Soup(3, << <<1, 2>> >>)
TriangleDigon == Soup(3, << <<1, 2, 3>>, <<1, 2>> >>)
Monogon == Soup(2, << <<1>> >>)
EmptyFace == Soup(4, << <<1, 2, 3>>, <<>> >>)

WellFormedCatalog == {Tetrahedron, Quad, RotatedQuad, Pentagon, TwoTriangles, Cone,
                      Pyramid, LoneVertex, LoneAndCone}

MalformedCatalog == {Bowtie, TwiceDirected, Digon, TriangleDigon, Monogon, EmptyFace}

Catalog == WellFormedCatalog \cup MalformedCatalog

Inputs == GeneratedInputs \cup Catalog

\* inflateDeflate factors: 1.0 and -1.0
Factors == {Scale, -Scale}

\* geometric calls explored per behaviour
MaxCalls == 2

ThisMesh == Mesh(vertices, edges, faces)

Call(op, arg, end) == [op |-> op, arg |-> arg, end |-> end]

InitWith(S) ==
    /\ vertices = <<>>
    /\ edges = <<>>
    /\ faces = <<>>
    /\ needsDisplayUpdate = FALSE
    /\ res \in S
    /\ lastCall = Call("new", 0, "returned")
    /\ nCalls = 0

\* a call that hangs never returns to the (single-threaded) caller
Running == lastCall.end # "hang"

(***************************************************************************)
(* loadFileFromLines(lines): Step 1 yields the description res; the        *)
(* previous mesh is cleared and rebuilt.  When Step 5 throws, the          *)
(* collections keep what was built and needsDisplayUpdate is not reached.  *)
(***************************************************************************)
loadFileFromLines ==
    /\ Running
    /\ \E b \in {BuildMesh(res)} :
            /\ vertices' = b.m.vertices
            /\ edges' = b.m.edges
            /\ faces' = b.m.faces
            /\ needsDisplayUpdate' = IF b.thrown THEN needsDisplayUpdate ELSE TRUE
            /\ lastCall' = Call("loadFileFromLines", 0,
                                IF b.thrown THEN "TypeError" ELSE "returned")
            /\ UNCHANGED <<res, nCalls>>

(***************************************************************************)
(* inflateDeflate(factor)                                                  *)
(***************************************************************************)
inflateDeflate(factor) ==
    /\ Running
    /\ nCalls < MaxCalls
    /\ \E r \in {InflateFrom(ThisMesh, factor, 1)} :
            /\ vertices' = r.m.vertices
            /\ edges' = r.m.edges
            /\ faces' = r.m.faces
            /\ needsDisplayUpdate' = IF r.end = "returned" THEN TRUE ELSE needsDisplayUpdate
            /\ lastCall' = Call("inflateDeflate", factor, r.end)
            /\ nCalls' = nCalls + 1
            /\ UNCHANGED res

(***************************************************************************)
(* laplacianSmoothSharpen(smooth); lastCall.arg is 1 for smooth.           *)
(***************************************************************************)
laplacianSmoothSharpen(smooth) ==
    /\ Running
    /\ nCalls < MaxCalls
    /\ \E r \in {LaplacianOf(ThisMesh, smooth)} :
            /\ vertices' = r.m.vertices
            /\ edges' = r.m.edges
            /\ faces' = r.m.faces
            /\ needsDisplayUpdate' = IF r.end = "returned" THEN TRUE ELSE needsDisplayUpdate
            /\ lastCall' = Call("laplacianSmoothSharpen", IF smooth THEN 1 ELSE 0, r.end)
            /\ nCalls' = nCalls + 1
            /\ UNCHANGED res

Inflate == \E factor \in Factors : inflateDeflate(factor)

Laplacian == \E smooth \in BOOLEAN : laplacianSmoothSharpen(smooth)

(***************************************************************************)
(* Spec: construction, over the generated inputs and the catalog.          *)
(* GeomSpec: construction followed by geometric calls, over the catalog.   *)
(***************************************************************************)
Init == InitWith(Inputs)

Next == loadFileFromLines

Spec == Init /\ [][Next]_vars

GeomInit == InitWith(Catalog)

GeomNext == loadFileFromLines \/ Inflate \/ Laplacian

GeomSpec == GeomInit /\ [][GeomNext]_vars

(***************************************************************************)
(* Vocabulary of the properties.                                           *)
(***************************************************************************)
Constructed == lastCall.op = "loadFileFromLines" /\ lastCall.end = "returned"

EdgeIds == 1..Len(edges)

\* the corners <<i, k>> of the faces of a description
Corners(r) == UNION { { <<i, k>> : k \in 1..Len(r.faces[i]) } : i \in 1..Len(r.faces) }

\* the directed vertex pair that starts at corner c
Directed(r, c) ==
    <<r.faces[c[1]][c[2]], r.faces[c[1]][(c[2] % Len(r.faces[c[1]])) + 1]>>

\* no directed vertex pair occurs at two corners
ConsistentlyOriented(r) ==
    \A c, d \in Corners(r) : c # d => Directed(r, c) # Directed(r, d)

AtLeastTriangles(r) == \A i \in 1..Len(r.faces) : Len(r.faces[i]) >= 3

Malformed(r) == ~AtLeastTriangles(r) \/ ~ConsistentlyOriented(r)

\* the vertices that share an edge of some face with v
NeighbourSet(r, v) ==
    { w \in 1..Len(r.vertices) :
        \E c \in Corners(r) : Directed(r, c) = <<v, w>> \/ Directed(r, c) = <<w, v>> }

Degree(r, v) == Cardinality(NeighbourSet(r, v))

Range(s) == { s[i] : i \in 1..Len(s) }

PairsMutual == \A e \in EdgeIds :
                  edges[e].pair # null /\ edges[edges[e].pair].pair = e

\* C1: after loadFileFromLines has built a mesh from a consistently oriented
\* face list, every half-edge of the edge collection, interior or synthesized,
\* has a non-null pair and is the pair of its pair.
C1_PairOfPair ==
    (lastCall.op = "loadFileFromLines" /\ ConsistentlyOriented(res)) => PairsMutual

\* C1 witness: a consistently oriented build that holds an interior pair of
\* half-edges and a synthesized boundary half-edge.
C1_Witness ==
    /\ Constructed /\ ConsistentlyOriented(res) /\ PairsMutual
    /\ \E e \in EdgeIds : edges[e].face # null /\ edges[edges[e].pair].face # null
    /\ \E e \in EdgeIds : edges[e].face = null

\* the face loop of f closes after exactly n steps, all of them on f
FaceLoopOf(f, n) ==
    LET es == getEdges(ThisMesh, f)
        vs == getVertices(ThisMesh, f)
    IN  /\ es.end = "returned" /\ vs.end = "returned"
        /\ Len(es.out) = n /\ Len(vs.out) = n
        /\ Cardinality(Range(es.out)) = n
        /\ \A i \in 1..n : edges[es.out[i]].face = f

\* C2: after construction, following next from f.h returns to f.h after exactly
\* as many steps as the face has vertices in the input (which is the length of
\* getVertices), and every half-edge on the way has face f.
C2_FaceLoops ==
    lastCall.op = "loadFileFromLines" =>
        /\ Len(faces) = Len(res.faces)
        /\ \A f \in 1..Len(faces) : FaceLoopOf(f, Len(res.faces[f]))

\* C2 witness: a well-formed build of two or more faces whose loops close.
C2_Witness ==
    /\ Constructed /\ Len(faces) >= 2 /\ ~Malformed(res)
    /\ \A f \in 1..Len(faces) : Len(res.faces[f]) >= 3 /\ FaceLoopOf(f, Len(res.faces[f]))

\* following next from the boundary half-edge e stays on face-less half-edges
\* and returns to e
BoundaryLoopClosed(e) ==
    /\ edges[e].next # null /\ edges[e].prev # null
    /\ LET w == FaceWalk(ThisMesh, e, edges[e].next, <<e>>)
       IN  w.end = "returned" /\ \A i \in 1..Len(w.out) : edges[w.out[i]].face = null

BoundaryLoopsClosed ==
    \A e \in EdgeIds : edges[e].face = null => BoundaryLoopClosed(e)

\* C3 (as claimed): after construction every synthesized boundary half-edge has
\* non-null next and prev and lies on a closed loop of face-less half-edges.
\* Stated for inputs with consistently oriented faces of three or more vertices.
C3_BoundaryLoops ==
    (Constructed /\ ConsistentlyOriented(res) /\ AtLeastTriangles(res))
        => BoundaryLoopsClosed

\* the tail vertex of a half-edge (HEdge.getVertices: prev.head; a boundary
\* half-edge starts where its pair ends)
TailOf(e) == IF edges[e].face # null THEN edges[edges[e].prev].head
           ELSE edges[edges[e].pair].head

Outgoing(v) == { e \in EdgeIds : TailOf(e) = v }

WithH(v, e) == [ThisMesh EXCEPT !.vertices[v].h = e]

\* the ring of v is closed: the walk from any outgoing half-edge of v returns
\* to it, having passed every outgoing half-edge of v
RingClosed(v) ==
    /\ vertices[v].h # null
    /\ \A e \in Outgoing(v) :
          LET w == RingWalk(ThisMesh, e, e, <<>>)
          IN  w.end = "returned" /\ Range(w.out) = Outgoing(v)

NeighboursAsClaimed(v) ==
    LET ns == getVertexNeighbors(ThisMesh, v)
    IN  /\ ns.end = "returned"
        /\ Len(ns.out) = Degree(res, v)
        /\ Cardinality(Range(ns.out)) = Len(ns.out)
        /\ \A e \in Outgoing(v) :
              LET other == getVertexNeighbors(WithH(v, e), v)
              IN  other.end = "returned" /\ Range(other.out) = Range(ns.out)

\* C4: for a vertex whose ring is closed, getVertexNeighbors returns a list as
\* long as the vertex's degree, without repetition, with the same set of
\* vertices whichever outgoing half-edge is stored in v.h; a vertex with a null
\* h yields the empty list.
C4_Neighbours ==
    lastCall.op = "loadFileFromLines" =>
        \A v \in 1..Len(vertices) :
            /\ RingClosed(v) => NeighboursAsClaimed(v)
            /\ vertices[v].h = null =>
                  getVertexNeighbors(ThisMesh, v) = [out |-> <<>>, end |-> "returned"]

\* C4 witness: a build with an interior vertex of degree 3 whose ring is closed
\* and passes no boundary half-edge, a boundary vertex whose ring is closed,
\* and a vertex without half-edge.
C4_Witness ==
    /\ Constructed
    /\ \E v \in 1..Len(vertices) :
          /\ RingClosed(v) /\ NeighboursAsClaimed(v) /\ Degree(res, v) >= 3
          /\ \A e \in Outgoing(v) : edges[e].face # null
    /\ \E v \in 1..Len(vertices) :
          /\ RingClosed(v) /\ NeighboursAsClaimed(v)
          /\ \E e \in Outgoing(v) : edges[e].face = null
    /\ \E v \in 1..Len(vertices) : vertices[v].h = null

(***************************************************************************)
(* Geometric calls.                                                        *)
(***************************************************************************)
VertexIds == 1..Len(vertices)

\* this step is a call of the geometric method op
GeometricStep(op) == lastCall'.op = op /\ nCalls' = nCalls + 1

HasLoneVertex == \E i \in VertexIds : vertices[i].h = null

Finite == \A i \in VertexIds : ~VecNaN(vertices[i].pos)

Moved == { i \in VertexIds : vertices'[i].pos # vertices[i].pos }

\* C5: in laplacianSmoothSharpen no position is written before every new
\* position is computed: each new position is the value that the loop body
\* yields on the positions the call started with, whatever the place of the
\* vertex in the iteration; a call that throws has written nothing.
C5_TwoPass ==
    [][GeometricStep("laplacianSmoothSharpen") =>
        IF \A i \in VertexIds :
              NewVertexPos(ThisMesh, i, lastCall'.arg = 1).end = "returned"
        THEN /\ lastCall'.end = "returned"
             /\ \A i \in VertexIds :
                   vertices'[i].pos = NewVertexPos(ThisMesh, i, lastCall'.arg = 1).val
        ELSE lastCall'.end # "returned" /\ vertices' = vertices]_vars

\* C5 witness: the first geometric call on a well-formed mesh was a smoothing
\* that returned and moved three or more vertices.
C5_Witness ==
    /\ lastCall = Call("laplacianSmoothSharpen", 1, "returned")
    /\ nCalls = 1 /\ ~Malformed(res) /\ Finite
    /\ Len(vertices) = Len(res.vertices)
    /\ Cardinality({ i \in VertexIds : vertices[i].pos # res.vertices[i] }) >= 3

\* C6 (as claimed): inflateDeflate moves one chosen vertex only, to its old
\* position plus factor times its unit normal; every other position is
\* unchanged.  Stated for a well-formed mesh in which every vertex has faces.
C6_OneVertexOnly ==
    [][(GeometricStep("inflateDeflate") /\ lastCall'.end = "returned"
         /\ Constructed /\ ~Malformed(res) /\ ~HasLoneVertex) =>
        /\ Cardinality(Moved) <= 1
        /\ \A i \in Moved :
              vertices'[i].pos =
                  scaleAndAdd(vertices[i].pos, getNormal(ThisMesh, i).val, lastCall'.arg)]_vars

\* C7 (as claimed): from the same positions, smoothing and sharpening displace
\* every vertex by opposite deltas: smoothed + sharpened == 2 * P_i.  Stated
\* for a well-formed mesh on which both calls return.
C7_OppositeDeltas ==
    LET smoothed  == LaplacianOf(ThisMesh, TRUE)
        sharpened == LaplacianOf(ThisMesh, FALSE)
    IN  (Constructed /\ ~Malformed(res)
         /\ smoothed.end = "returned" /\ sharpened.end = "returned") =>
            \A i \in VertexIds :
                exactEquals(add(smoothed.m.vertices[i].pos, sharpened.m.vertices[i].pos),
                            scale(vertices[i].pos, 2))

\* C7 on the vertices that have neighbours: checked besides the claim, which
\* speaks of every vertex.
C7_AttachedVertices ==
    LET smoothed  == LaplacianOf(ThisMesh, TRUE)
        sharpened == LaplacianOf(ThisMesh, FALSE)
    IN  (smoothed.end = "returned" /\ sharpened.end = "returned") =>
            \A i \in VertexIds :
                (vertices[i].h # null /\ Finite) =>
                    exactEquals(add(smoothed.m.vertices[i].pos, sharpened.m.vertices[i].pos),
                                scale(vertices[i].pos, 2))

\* C8: a call of inflateDeflate or laplacianSmoothSharpen changes vertex
\* positions only: the half-edges, the faces, the number and order of the
\* vertices and every vertex's h, ID and color stay as they were.
C8_PositionsOnly ==
    [][(GeometricStep("inflateDeflate") \/ GeometricStep("laplacianSmoothSharpen")) =>
        /\ edges' = edges
        /\ faces' = faces
        /\ Len(vertices') = Len(vertices)
        /\ \A i \in VertexIds :
              /\ vertices'[i].h = vertices[i].h
              /\ vertices'[i].ID = vertices[i].ID
              /\ vertices'[i].color = vertices[i].color]_vars

\* C8 witness: after two geometric calls on a well-formed mesh, the last of
\* which returned, positions differ from the loaded ones while the collections
\* are those that construction built.
C8_Witness ==
    /\ lastCall.op \in {"inflateDeflate", "laplacianSmoothSharpen"}
    /\ lastCall.end = "returned"
    /\ nCalls = 2 /\ ~Malformed(res) /\ Finite
    /\ Len(vertices) = Len(res.vertices)
    /\ \E i \in VertexIds : vertices[i].pos # res.vertices[i]
    /\ ThisMesh.edges = BuildMesh(res).m.edges
    /\ ThisMesh.faces = BuildMesh(res).m.faces
    /\ \A i \in VertexIds : vertices[i].h = BuildMesh(res).m.vertices[i].h

\* C9 (as claimed): construction from malformed input (a face with fewer than
\* three vertices, or a directed vertex pair in two faces) is reported to the
\* caller as a failure, and never completes leaving a half-edge with a null
\* pair, next or prev or with pair.pair other than itself.
C9_MalformedReported ==
    (lastCall.op = "loadFileFromLines" /\ Malformed(res)) =>
        /\ lastCall.end # "returned"
        /\ PairsMutual
        /\ \A e \in EdgeIds : edges[e].next # null /\ edges[e].prev # null

\* C10 (as claimed): on a mesh with a vertex without attached faces,
\* inflateDeflate and laplacianSmoothSharpen end in a reported error and leave
\* every position unchanged; no position is overwritten with NaN or Infinity.
C10_DegenerateReported ==
    [][((GeometricStep("inflateDeflate") \/ GeometricStep("laplacianSmoothSharpen"))
         /\ Constructed /\ ~Malformed(res) /\ HasLoneVertex /\ Finite) =>
        /\ lastCall'.end # "returned"
        /\ vertices' = vertices
        /\ Finite']_vars

FaceIds == 1..Len(faces)

\* the empty list, returned
EmptyList == [out |-> <<>>, end |-> "returned"]

\* the vertices and the faces that no half-edge has been attached to
NoHalfEdgeVertices == { v \in VertexIds : vertices[v].h = null }

NoHalfEdgeFaces == { f \in FaceIds : faces[f].h = null }

\* getVertexNeighbors, getAttachedFaces, getEdges and getVertices on an object
\* with h == null return the empty list
ListQueriesEmpty ==
    /\ \A v \in NoHalfEdgeVertices :
          /\ getVertexNeighbors(ThisMesh, v) = EmptyList
          /\ getAttachedFaces(ThisMesh, v) = EmptyList
    /\ \A f \in NoHalfEdgeFaces :
          /\ getEdges(ThisMesh, f) = EmptyList
          /\ getVertices(ThisMesh, f) = EmptyList

\* getEdgeBetweenVertex on a vertex with h == null returns null (no edge) for
\* every vertex argument
EdgeQueryEmpty ==
    \A v \in NoHalfEdgeVertices : \A vertex \in VertexIds :
        LET edge == getEdgeBetweenVertex(ThisMesh, v, vertex)
        IN  edge.end = "returned" /\ edge.val = null

\* C11 (as claimed): every topology query invoked on a vertex or face with
\* h == null returns an empty result without raising an error:
\* getVertexNeighbors, getAttachedFaces and getEdgeBetweenVertex on a vertex,
\* getEdges and getVertices on a face.  Stated for the builds of well-formed
\* inputs.
C11_EmptyOnNoHalfEdge ==
    (Constructed /\ ~Malformed(res)) => (ListQueriesEmpty /\ EdgeQueryEmpty)

\* C11, the four list queries alone: they return the empty list, in every
\* state, also after the geometric methods have run.
C11_ListQueries == lastCall.op # "new" => ListQueriesEmpty

\* a build with a vertex and a face that have no half-edge
C11_ListQueriesWitness ==
    Constructed /\ NoHalfEdgeVertices # {} /\ NoHalfEdgeFaces # {} /\ ListQueriesEmpty

\* next and prev are inverse at the half-edge e, and e.next starts where e ends
NextPrevInverse(e) ==
    /\ edges[e].next # null /\ edges[e].prev # null
    /\ edges[edges[e].next].prev = e
    /\ edges[edges[e].prev].next = e
    /\ edges[edges[e].next].pair # null
    /\ edges[edges[edges[e].next].pair].head = edges[e].head

\* the corners of a description whose directed pair has no opposite: Step 4
\* synthesizes a boundary half-edge for each
BoundaryCorners(r) ==
    { c \in Corners(r) :
        \A d \in Corners(r) : Directed(r, d) # <<Directed(r, c)[2], Directed(r, c)[1]>> }

\* no two synthesized boundary half-edges start at the same vertex, so none
\* is overwritten in boundaryEdges
OneBoundaryPerTail(r) ==
    \A c, d \in BoundaryCorners(r) : c # d => Directed(r, c)[2] # Directed(r, d)[2]

\* C12 (as claimed): after construction next and prev are mutually inverse on
\* every half-edge, interior and boundary: e.next.prev == e, e.prev.next == e,
\* and e.next.pair.head is e.head.  Stated for inputs with consistently
\* oriented faces of three or more vertices.
C12_NextPrevInverse ==
    (Constructed /\ ~Malformed(res)) => \A e \in EdgeIds : NextPrevInverse(e)

\* C12 where every boundary half-edge keeps its slot in boundaryEdges: next
\* and prev are inverse on every half-edge.
C12_OneBoundaryPerTail ==
    (lastCall.op = "loadFileFromLines" /\ ~Malformed(res) /\ OneBoundaryPerTail(res))
        => (lastCall.end = "returned" /\ \A e \in EdgeIds : NextPrevInverse(e))

\* a build with interior and boundary half-edges where next and prev are inverse
C12_OneBoundaryPerTailWitness ==
    /\ Constructed /\ ~Malformed(res) /\ OneBoundaryPerTail(res)
    /\ \E e \in EdgeIds : edges[e].face = null
    /\ \E e \in EdgeIds : edges[e].face # null /\ edges[edges[e].pair].face # null
    /\ \A e \in EdgeIds : NextPrevInverse(e)

====
